---- MODULE Spec2Model ----
(***************************************************************************)
(* Model of the API-token lifecycle and the owner search of                *)
(* src/backend/InvenTree/users/api.py.                                     *)
(*                                                                         *)
(*   Spec       request handlers run one after the other (each handler is  *)
(*              one step): GetAuthToken.get, TokenListView.create,         *)
(*              TokenDetailView.destroy, and the clock.                    *)
(*   SpecAccess the same handlers with the read-only token list, on one    *)
(*              day.                                                       *)
(*   SpecRace   two GetAuthToken.get requests whose lookup (lines 339-344) *)
(*              and create/respond (lines 346-372) steps interleave.       *)
(*   SpecOwner  OwnerList.filter_queryset applied to bounded inputs.       *)
(***************************************************************************)
EXTENDS Integers, Sequences, FiniteSets, TLC

VARIABLES tokens, today, resp, procs, owner_req, results

vars == <<tokens, today, resp, procs, owner_req, results>>

\* ------------------------------------------------------------------ bounds
MaxTokens == 2
MaxDay == 1
MaxSearchLen == 3
\* Days a new token stays valid after the day it is created on.
TokenHorizon == 0

\* ------------------------------------------------------------ actors, inputs
Users == {"alice", "root"}
IsSuperuser(u) == u = "root"

RawNames == {"ci", " ci ", "db"}
NoParam == "<absent>"
ParamValues == {NoParam, "", "true", "false"}
Requests == {"curl"}
MetaKeys == {"user_agent", "remote_addr", "remote_host", "remote_user",
             "server_name", "server_port"}
NoValue == "<unset>"

\* -------------------------------------------------- users.models.ApiToken
\* ApiToken.sanitize_name: surrounding blanks are trimmed.
sanitize_name(raw) == IF raw = " ci " THEN "ci" ELSE raw

Names == {sanitize_name(raw) : raw \in RawNames}

\* Default expiry: the creation day plus the horizon of the expiry policy.
default_token_expiry(day) == day + TokenHorizon

\* A freshly generated key: one that no stored token carries.
generate_key(ts) ==
    CHOOSE k \in 1..(Len(ts) + 1) : \A i \in DOMAIN ts : ts[i].key # k

\* ApiToken.objects.create(user=..., name=...): insert one row, defaults for
\* the key, the expiry, the revoked flag and the metadata. pk = index.
NewToken(ts, u, n, day) ==
    [user |-> u, name |-> n, key |-> generate_key(ts),
     expiry |-> default_token_expiry(day), revoked |-> FALSE,
     metadata |-> [k \in MetaKeys |-> NoValue]]

objects_create(ts, u, n, day) == Append(ts, NewToken(ts, u, n, day))

\* token.set_metadata(key, value): overwrite one key, keep the others.
set_metadata(ts, pk, k, v) == [ts EXCEPT ![pk].metadata[k] = v]

\* The six header values of one request (lines 357-362).
RequestMeta(r) == [k \in MetaKeys |-> r]

RECURSIVE SetAllMetadata(_, _, _, _)
SetAllMetadata(ts, pk, hdr, keys) ==
    IF keys = {} THEN ts
    ELSE LET k == CHOOSE x \in keys : TRUE
         IN  SetAllMetadata(set_metadata(ts, pk, k, hdr[k]), pk, hdr, keys \ {k})

\* ------------------------------------------------------- GetAuthToken.get
LookupFilter_IgnoreRevoked(ts, u, n, day) ==
    {i \in DOMAIN ts : ts[i].user = u /\ ts[i].name = n /\ ts[i].expiry >= day}

LookupFilter_StrictExpiry(ts, u, n, day) ==
    {i \in DOMAIN ts : /\ ts[i].user = u /\ ts[i].name = n
                      /\ ts[i].revoked = FALSE /\ ts[i].expiry > day}

\* ApiToken.objects.filter(user, name, revoked=False, expiry__gte=today)
LookupFilter(ts, u, n, day) ==
    {i \in DOMAIN ts : /\ ts[i].user = u
                      /\ ts[i].name = n
                      /\ ts[i].revoked = FALSE
                      /\ ts[i].expiry >= day}

First_HighestPk(S) == IF S = {} THEN 0 ELSE CHOOSE i \in S : \A j \in S : i >= j

\* .first(): the match with the lowest pk, or 0 (None) when there is none.
First(S) == IF S = {} THEN 0 ELSE CHOOSE i \in S : \A j \in S : i <= j

NoResp == [op |-> "none", actor |-> "", status |-> 0, token |-> 0, key |-> 0,
           created |-> FALSE, all_users |-> NoParam, ids |-> {}]

\* Lines 346-372 for a lookup result `found`: create when nothing was found,
\* record the metadata, answer with the key.
FinishGet(u, n, r, found) ==
    LET ts1 == IF found = 0 THEN objects_create(tokens, u, n, today) ELSE tokens
        pk  == IF found = 0 THEN Len(ts1) ELSE found
        ts2 == SetAllMetadata(ts1, pk, RequestMeta(r), MetaKeys)
    IN  /\ found = 0 => Len(tokens) < MaxTokens
        /\ tokens' = ts2
        /\ resp' = [NoResp EXCEPT !.op = "get_token", !.actor = u,
                                  !.status = 200, !.token = pk,
                                  !.key = ts2[pk].key,
                                  !.created = (found = 0)]

GetAuthToken_get(u, raw, r) ==
    LET n == sanitize_name(raw)
        found == First(LookupFilter(tokens, u, n, today))
    IN  /\ FinishGet(u, n, r, found)
        /\ UNCHANGED <<today, procs, owner_req, results>>

\* ------------------------------------------------------------- TokenMixin
Truthy_AnyPresent(v) == v # NoParam

\* query_params.get('all_users', False) in a condition: absent or empty is
\* false, every other text is true.
Truthy(v) == v # NoParam /\ v # ""

get_queryset_AnyActor(ts, u, all_users) ==
    IF Truthy(all_users) THEN DOMAIN ts ELSE {i \in DOMAIN ts : ts[i].user = u}

get_queryset(ts, u, all_users) ==
    IF IsSuperuser(u) /\ Truthy(all_users)
    THEN DOMAIN ts
    ELSE {i \in DOMAIN ts : ts[i].user = u}

\* ---------------------------------------------------------- TokenListView
\* super().create stores a token of the requesting user under the given
\* name; the response then gets the key of that token (lines 427-429).
TokenListView_create(u, n) ==
    /\ Len(tokens) < MaxTokens
    /\ tokens' = objects_create(tokens, u, n, today)
    /\ resp' = [NoResp EXCEPT !.op = "create", !.actor = u, !.status = 201,
                              !.token = Len(tokens'),
                              !.key = tokens'[Len(tokens')].key,
                              !.created = TRUE]
    /\ UNCHANGED <<today, procs, owner_req, results>>

\* The serialized list carries no key field.
TokenListView_get(u, all_users) ==
    /\ resp' = [NoResp EXCEPT !.op = "list", !.actor = u, !.status = 200,
                              !.all_users = all_users,
                              !.ids = get_queryset(tokens, u, all_users)]
    /\ UNCHANGED <<tokens, today, procs, owner_req, results>>

\* -------------------------------------------------------- TokenDetailView
perform_destroy_DeleteRow(ts, pk) ==
    [i \in 1..(Len(ts) - 1) |-> IF i < pk THEN ts[i] ELSE ts[i + 1]]

\* instance.revoked = True; instance.save()
perform_destroy(ts, pk) == [ts EXCEPT ![pk].revoked = TRUE]

TokenDetailView_destroy(u, pk, all_users) ==
    /\ IF pk \in get_queryset(tokens, u, all_users)
       THEN /\ tokens' = perform_destroy(tokens, pk)
            /\ resp' = [NoResp EXCEPT !.op = "destroy", !.actor = u,
                                      !.status = 204, !.token = pk]
       ELSE /\ tokens' = tokens
            /\ resp' = [NoResp EXCEPT !.op = "destroy", !.actor = u,
                                      !.status = 404, !.token = pk]
    /\ UNCHANGED <<today, procs, owner_req, results>>

\* ------------------------------------------------------------------ clock
Tick ==
    /\ today < MaxDay
    /\ today' = today + 1
    /\ UNCHANGED <<tokens, resp, procs, owner_req, results>>

\* --------------------------------------- GetAuthToken.get, step by step
\* Two request workers. A request reads the matching token (lines 339-344),
\* and in a later step creates one if it read none and answers (346-372).
Procs == {1, 2}
IdleProc == [pc |-> "idle", user |-> "", name |-> "", req |-> "", found |-> 0,
             key |-> 0]

GetLookup(p, u, raw, r) ==
    /\ procs[p].pc = "idle"
    /\ procs' = [procs EXCEPT ![p] =
                    [pc |-> "looked", user |-> u, name |-> sanitize_name(raw),
                     req |-> r, key |-> 0,
                     found |-> First(LookupFilter(tokens, u, sanitize_name(raw),
                                                  today))]]
    /\ UNCHANGED <<tokens, today, resp, owner_req, results>>

GetFinish(p) ==
    /\ procs[p].pc = "looked"
    /\ FinishGet(procs[p].user, procs[p].name, procs[p].req, procs[p].found)
    /\ procs' = [procs EXCEPT ![p].pc = "done", ![p].key = resp'.key]
    /\ UNCHANGED <<today, owner_req, results>>

\* The worker takes the next request.
NextRequest(p) ==
    /\ procs[p].pc = "done"
    /\ procs' = [procs EXCEPT ![p] = IdleProc]
    /\ UNCHANGED <<tokens, today, resp, owner_req, results>>

\* -------------------------------------------- OwnerList.filter_queryset
\* Text is a sequence of characters. Python's str.lower, str.strip,
\* str.split(' ') and the substring test `in` are computed as Python does.
Chars == {"a", "b", "A", " ", "\t"}
IsWhitespace(c) == c \in {" ", "\t"}

lower(s) == [i \in DOMAIN s |-> IF s[i] = "A" THEN "a" ELSE s[i]]

RECURSIVE lstrip(_)
lstrip(s) ==
    IF s # <<>> /\ IsWhitespace(Head(s)) THEN lstrip(Tail(s)) ELSE s

RECURSIVE rstrip(_)
rstrip(s) ==
    IF s # <<>> /\ IsWhitespace(s[Len(s)])
    THEN rstrip(SubSeq(s, 1, Len(s) - 1)) ELSE s

strip(s) == rstrip(lstrip(s))

\* s.split(sep): cut at every occurrence of sep; empty pieces are kept.
RECURSIVE split(_, _)
split(s, sep) ==
    IF \A i \in DOMAIN s : s[i] # sep THEN <<s>>
    ELSE LET k == CHOOSE i \in DOMAIN s :
                      s[i] = sep /\ \A j \in 1..(i - 1) : s[j] # sep
         IN  <<SubSeq(s, 1, k - 1)>> \o split(SubSeq(s, k + 1, Len(s)), sep)

\* `entry in name`: entry occurs in name at some offset (scanned from 0).
RECURSIVE contains_from(_, _, _)
contains_from(name, entry, k) ==
    IF k + Len(entry) > Len(name) THEN FALSE
    ELSE IF SubSeq(name, k + 1, k + Len(entry)) = entry THEN TRUE
    ELSE contains_from(name, entry, k + 1)

contains(name, entry) == contains_from(name, entry, 0)

\* InvenTree.helpers.str2bool
str2bool(text) == text \in {"1", "y", "yes", "t", "true", "ok", "on"}

\* Owner.objects.all(): two users and a group, with the names they resolve to.
Owners == <<[owner_type |-> "user",  owner_id |-> 1, name |-> <<"A", "b">>],
            [owner_type |-> "user",  owner_id |-> 2, name |-> <<"a", " ", "b">>],
            [owner_type |-> "group", owner_id |-> 1, name |-> <<"a", "A">>]>>
UserIds == {1, 2}

first_entry_matches(entries, name) ==
    entries = <<>> \/ contains(name, Head(entries))

\* Lines 87-94: every entry of the split search term must occur in the name.
RECURSIVE all_entries_match(_, _)
all_entries_match(entries, name) ==
    IF entries = <<>> THEN TRUE
    ELSE IF ~contains(name, Head(entries)) THEN FALSE
    ELSE all_entries_match(Tail(entries), name)

search_match(search_term, name) ==
    IF search_term # <<>>
    THEN all_entries_match(split(strip(search_term), " "), name)
    ELSE TRUE

\* Lines 99-105: a user-typed owner outside matching_user_ids is skipped.
skipped_as_inactive(o, is_active, active) ==
    /\ is_active # NoParam
    /\ o.owner_type = "user"
    /\ o.owner_id \notin {id \in UserIds : (id \in active) = str2bool(is_active)}

\* Lines 85-108: the loop over the queryset, in order.
RECURSIVE filter_loop(_, _, _, _)
filter_loop(queryset, search_term, is_active, active) ==
    IF queryset = <<>> THEN <<>>
    ELSE LET result == Head(queryset)
             name == strip(lower(result.name))
             rest == filter_loop(Tail(queryset), search_term, is_active, active)
         IN  IF ~search_match(search_term, name) THEN rest
             ELSE IF skipped_as_inactive(result, is_active, active) THEN rest
             ELSE <<result>> \o rest

OwnerList_filter_queryset ==
    /\ owner_req.answered = FALSE
    /\ results' = filter_loop(Owners, lower(owner_req.search),
                              owner_req.is_active, owner_req.active)
    /\ owner_req' = [owner_req EXCEPT !.answered = TRUE]
    /\ UNCHANGED <<tokens, today, resp, procs>>

\* ------------------------------------------------------------------- Spec
NoOwnerReq == [search |-> <<>>, is_active |-> NoParam, active |-> {},
               answered |-> FALSE]

Init ==
    /\ tokens = <<>>
    /\ today = 0
    /\ resp = NoResp
    /\ procs = [p \in Procs |-> IdleProc]
    /\ owner_req = NoOwnerReq
    /\ results = <<>>

Issue == \E u \in Users, raw \in RawNames, r \in Requests : GetAuthToken_get(u, raw, r)
Create == \E u \in Users, n \in Names : TokenListView_create(u, n)
List == \E u \in Users, p \in ParamValues : TokenListView_get(u, p)
Destroy == \E u \in Users, pk \in 1..MaxTokens, p \in ParamValues :
               TokenDetailView_destroy(u, pk, p)

\* The token lifecycle: every handler that writes a token, and the clock.
Next == Issue \/ Create \/ Destroy \/ Tick

Spec == Init /\ [][Next]_vars

\* Token visibility: the handlers, the read-only list among them, on one day.
NextAccess == Issue \/ Create \/ List \/ Destroy

SpecAccess == Init /\ [][NextAccess]_vars

Lookup == \E p \in Procs, u \in Users, raw \in RawNames, r \in Requests :
              GetLookup(p, u, raw, r)
Finish == \E p \in Procs : GetFinish(p)
Again == \E p \in Procs : NextRequest(p)

NextRace == Lookup \/ Finish \/ Again

SpecRace == Init /\ [][NextRace]_vars

\* The owner search, for every search term, is_active value and set of
\* active users within the bounds.
SearchTerms == UNION {[1..n -> Chars] : n \in 0..MaxSearchLen}

InitOwner ==
    /\ tokens = <<>>
    /\ today = 0
    /\ resp = NoResp
    /\ procs = [p \in Procs |-> IdleProc]
    /\ results = <<>>
    /\ owner_req \in [search : SearchTerms, is_active : {NoParam, "true", "false"},
                      active : SUBSET UserIds, answered : {FALSE}]

NextOwner == OwnerList_filter_queryset

SpecOwner == InitOwner /\ [][NextOwner]_vars

\* =================================================================== claims
SameOwnerName(i, j) ==
    tokens[i].user = tokens[j].user /\ tokens[i].name = tokens[j].name

ActiveAt(i, day) == tokens[i].revoked = FALSE /\ tokens[i].expiry >= day

\* The stored tokens of (u, n) that are neither revoked nor expired today.
ActiveOf(u, n) ==
    {i \in DOMAIN tokens : /\ tokens[i].user = u /\ tokens[i].name = n
                           /\ ActiveAt(i, today)}

\* A get has returned token i before: lines 357-362 run on every get, and
\* nowhere else, and leave the metadata of the returned token set.
IssuedBefore(i) == \E k \in MetaKeys : tokens[i].metadata[k] # NoValue

AllIssued(u, n) ==
    \A i \in DOMAIN tokens :
        (tokens[i].user = u /\ tokens[i].name = n) => IssuedBefore(i)

\* This step is a GetAuthToken.get by u that answers with a token named n.
\* (Under Spec every handler writes resp, and the clock leaves it alone.)
GetStep(u, n) ==
    /\ resp'.op = "get_token" /\ today' = today
    /\ resp'.actor = u
    /\ resp'.token \in DOMAIN tokens' /\ tokens'[resp'.token].name = n

\* Token i is stored after the step exactly as before it.
Untouched(i) == i \in DOMAIN tokens' /\ tokens'[i] = tokens[i]

\* Token i is stored after the step as before it, its metadata aside.
SameButMetadata(i) ==
    /\ i \in DOMAIN tokens'
    /\ tokens'[i] = [tokens[i] EXCEPT !.metadata = tokens'[i].metadata]

RevokedStaysRevoked ==
    \A i \in DOMAIN tokens :
        tokens[i].revoked => (i \in DOMAIN tokens' /\ tokens'[i].revoked)

\* C1: for every (user, name) there is at most one token that is neither
\* revoked nor expired.
C1_AtMostOneActiveToken ==
    \A i, j \in DOMAIN tokens :
        (SameOwnerName(i, j) /\ ActiveAt(i, today) /\ ActiveAt(j, today)) => i = j

\* C2: two interleaved gets for the same (user, name) that both found no
\* active token create at most one record and return the same key.
C2_ConcurrentGetsShareOneToken ==
    \A p, q \in Procs :
        ( /\ procs[p].pc = "done" /\ procs[q].pc = "done"
          /\ procs[p].user = procs[q].user /\ procs[p].name = procs[q].name
          /\ procs[p].found = 0 /\ procs[q].found = 0 )
        => procs[p].key = procs[q].key

C5_DestroyIsSoftRevoke ==
    [][(resp'.op = "destroy" /\ resp'.status = 204) =>
          /\ DOMAIN tokens' = DOMAIN tokens
          /\ resp'.token \in DOMAIN tokens
          /\ tokens'[resp'.token].revoked
          /\ \A i \in DOMAIN tokens :
                tokens'[i] = [tokens[i] EXCEPT
                                 !.revoked = (i = resp'.token \/ tokens[i].revoked)]]_vars

C5_Witness ==
    /\ resp.op = "destroy" /\ resp.status = 204
    /\ tokens[resp.token].revoked
    /\ \E j \in DOMAIN tokens :
          /\ j # resp.token /\ tokens[j].revoked = FALSE
          /\ tokens[j].user = tokens[resp.token].user

\* C6: a response carries a key only if it answers the GetAuthToken.get that
\* created the token. (Taken for the responses of GetAuthToken.get: one that
\* carries a key answers the call that created the token.)
C6_KeyOnlyAtCreatingGet ==
    (resp.op = "get_token" /\ resp.key # 0) => resp.created

\* C7: a destroy by an actor who neither owns the token nor is a superuser
\* fails, whatever the query parameters, and changes no stored token.
C7_ForeignDestroyFails ==
    [][( /\ resp'.op = "destroy"
         /\ resp'.token \in DOMAIN tokens
         /\ tokens[resp'.token].user # resp'.actor
         /\ ~IsSuperuser(resp'.actor) ) =>
            (resp'.status = 404 /\ tokens' = tokens)]_vars

C7_Witness ==
    /\ resp.op = "destroy" /\ resp.status = 404
    /\ resp.token \in DOMAIN tokens
    /\ tokens[resp.token].user # resp.actor
    /\ ~IsSuperuser(resp.actor)
    /\ tokens[resp.token].revoked = FALSE

OwnTokens(u) == {i \in DOMAIN tokens : tokens[i].user = u}

Returned == {results[i] : i \in DOMAIN results}
AllOwners == {Owners[i] : i \in DOMAIN Owners}

\* t occurs in name, letter case aside.
OccursIn(t, name) ==
    \E k \in 0..Len(name) :
        /\ k + Len(t) <= Len(name)
        /\ \A i \in 1..Len(t) : lower(name)[k + i] = lower(t)[i]

\* The words of q: the maximal runs of characters that are not in seps.
Words(q, seps) ==
    {SubSeq(q, p[1], p[2]) :
        p \in {x \in (DOMAIN q) \X (DOMAIN q) :
                  /\ x[1] <= x[2]
                  /\ \A k \in x[1]..x[2] : q[k] \notin seps
                  /\ (x[1] = 1 \/ q[x[1] - 1] \in seps)
                  /\ (x[2] = Len(q) \/ q[x[2] + 1] \in seps)}}

Whitespace == {c \in Chars : IsWhitespace(c)}

\* q without the whitespace around it.
Trimmed(q) ==
    LET ink == {i \in DOMAIN q : ~IsWhitespace(q[i])}
    IN  IF ink = {} THEN <<>>
        ELSE SubSeq(q, CHOOSE i \in ink : \A j \in ink : i <= j,
                       CHOOSE i \in ink : \A j \in ink : i >= j)

ActiveFilterPasses(o) ==
    (owner_req.is_active # NoParam /\ o.owner_type = "user") =>
        ((o.owner_id \in owner_req.active) = (owner_req.is_active = "true"))

\* C9 as claimed: the owners returned are exactly those whose name contains,
\* letter case aside, every whitespace-separated word of the search term, and
\* that, when is_active is given and they are users, have that active flag.
C9_WhitespaceWords ==
    owner_req.answered =>
        Returned = {o \in AllOwners :
                       /\ \A w \in Words(owner_req.search, Whitespace) :
                             OccursIn(w, o.name)
                       /\ ActiveFilterPasses(o)}

\* C9 amended: ... every word of the search term, trimmed of the whitespace
\* around it and cut at space characters only ...
C9_SpaceWords ==
    owner_req.answered =>
        /\ Returned = {o \in AllOwners :
                          /\ \A w \in Words(Trimmed(owner_req.search), {" "}) :
                                OccursIn(w, o.name)
                          /\ ActiveFilterPasses(o)}
        /\ Len(results) = Cardinality(Returned)
        /\ (owner_req.search = <<>> /\ owner_req.is_active = NoParam) =>
              Returned = AllOwners
        /\ \A o \in AllOwners :
              (o.owner_type = "group" /\ o \notin Returned) =>
                 \E w \in Words(Trimmed(owner_req.search), {" "}) :
                    ~OccursIn(w, o.name)

\* A two-word search in capitals, with is_active given, kept the group and an
\* active user and dropped an inactive user whose name matches.
C9_Witness ==
    /\ owner_req.answered
    /\ Cardinality(Words(Trimmed(owner_req.search), {" "})) = 2
    /\ \E i \in DOMAIN owner_req.search : owner_req.search[i] = "A"
    /\ owner_req.is_active = "true"
    /\ \E o \in Returned : o.owner_type = "group"
    /\ \E o \in Returned : o.owner_type = "user"
    /\ \E o \in AllOwners \ Returned :
          /\ o.owner_type = "user"
          /\ \A w \in Words(Trimmed(owner_req.search), {" "}) : OccursIn(w, o.name)

====
